---- MODULE Spec2Model ----
(***************************************************************************)
(* Model of fastchat/llm_judge/gen_model_answer.py: the benchmark driver   *)
(* (run_eval, get_model_answers, reorg_answer_file, __main__) and the      *)
(* logits processor StopAfterEosTextGenerated.                             *)
(*                                                                         *)
(* Two specifications share the variables:                                 *)
(*   Spec      a whole run of the script, from argument parsing to the     *)
(*             rewrite of the answer file, with one process per shard;     *)
(*   StopSpec  a generation loop calling StopAfterEosTextGenerated.        *)
(***************************************************************************)
EXTENDS Integers, Sequences, FiniteSets, TLC

VARIABLES
    args,           \* the parsed command line (the arguments the claims need)
    questions,      \* run_eval: the loaded question list (question ids)
    pc,             \* position of the driver (__main__ / run_eval)
    use_ray,        \* run_eval: use_ray
    chunk_size,     \* run_eval: chunk_size
    range_i,        \* run_eval: the loop variable i of the dispatch loop
    ans_handles,    \* run_eval: one entry per dispatched get_model_answers
    file,           \* the answer file: a sequence of lines (records)
    appended,       \* history: every line the file held before the rewrite
    raised,         \* history: the number of exceptions raised in the shards
    processor,      \* StopAfterEosTextGenerated: base_len, eos_token_id
    input_ids,      \* generate(): the batch of token rows
    scores,         \* generate(): the scores handed to the processor
    returned        \* what StopAfterEosTextGenerated.__call__ returned

vars == <<args, questions, pc, use_ray, chunk_size, range_i, ans_handles,
          file, appended, raised, processor, input_ids, scores, returned>>

runVars == <<args, questions, pc, use_ray, chunk_size, range_i, ans_handles,
             file, appended, raised>>

stopVars == <<processor, input_ids, scores, returned>>

----------------------------------------------------------------------------
(* Bounds of the model *)

MaxQuestions == 3       \* questions in the benchmark question file
MaxTurns == 2           \* turns of a question
MaxRaised == 1          \* exceptions raised in the shards of one run (raised)
MaxLen == 3             \* columns of input_ids in a call of the processor
MaxBaseLen == 3         \* base_len of the processor

(* Program constants *)

ContextLimit == 2048    \* the max context length of lines 160-161
NegInf == -1000000      \* -float("inf") of line 42

----------------------------------------------------------------------------
(* Helpers *)

Min(a, b) == IF a <= b THEN a ELSE b

Max(a, b) == IF a >= b THEN a ELSE b

\* Python's seq[a:b] for 0 <= a, b (0-based, end exclusive, clipped)
PySlice(seq, a, b) == SubSeq(seq, a + 1, Min(b, Len(seq)))

\* Python's range(0, n, step) for step > 0, as the set of its values
PyRange(n, step) == {k \in 0..Max(n - 1, 0) : k < n /\ k % step = 0}

Last(seq) == seq[Len(seq)]

----------------------------------------------------------------------------
(* Inputs *)

\* The question file: question ids in file order (unique, not sorted).
QuestionFile ==
    [k \in 1..MaxQuestions |->
        IF k % 2 = 1 THEN (IF k + 1 <= MaxQuestions THEN k + 1 ELSE k)
                     ELSE k - 1]

\* len(question["turns"]) of the question with this id
NumTurns(qid) == 1 + (qid % MaxTurns)

\* --max-new-token values
MaxNewTokenArgs == {512, 1024}

\* inputs.input_ids.size(-1) for the prompt of turn j of the question: the
\* prompt of a later turn holds the earlier turns and is longer
PromptTokens(qid, j) == 50 * qid + 1900 * j

\* --num-choices values
NumChoicesArgs == {0, 1, 2}

\* --num-gpus-total and --num-gpus-per-model values
GpusTotalArgs == {1, 2}

GpusPerModelArgs == {1, 2}

StaleRecord(qid, k) ==
    [question_id |-> qid,
     answer_id   |-> <<0, k>>,
     model_id    |-> "model",
     choices     |-> <<[index |-> 0, turns |-> <<"old">>]>>,
     tstamp      |-> 0]

\* What the answer file holds before the run: nothing, or the records of
\* an earlier run, for a question of this run and for another question.
ExistingFiles ==
    {<<>>,
     <<StaleRecord(MaxQuestions + 1, 1), StaleRecord(QuestionFile[1], 2),
       StaleRecord(QuestionFile[1], 3)>>}

----------------------------------------------------------------------------
(* get_model_answers: the state of one call (one shard) *)

Kinds == {"RuntimeError", "OtherError"}

NoExc == [site |-> "none", kind |-> "none"]

\* num_gpus_total // num_gpus_per_model
Replicas == args.num_gpus_total \div args.num_gpus_per_model

NewShard(chunk, status) ==
    [questions        |-> chunk,
     status           |-> status,
     q                |-> 0,
     i                |-> 0,
     j                |-> 0,
     turns            |-> <<>>,
     choices          |-> <<>>,
     MAX_NEW_TOKEN    |-> 0,
     max_new_token    |-> args.max_new_token,
     num_input_tokens |-> 0,
     e                |-> NoExc]     \* what the latest turn of the question raised

\* the question the shard is working on
Question(sh) == sh.questions[sh.q]

\* an exception leaves get_model_answers
Raise(sh, site, kind) ==
    [sh EXCEPT !.status = "failed", !.e = [site |-> site, kind |-> kind]]

\* In the sequential path the exception unwinds run_eval and __main__ at once.
DriverAfterRaise == IF use_ray THEN pc ELSE "crashed"

\* lines 171 and 230: the try block covers the generation call and the
\* post-processing of its output, and the handler takes RuntimeError only
InTry(site) == site \in {"generate", "postprocess"}

\* variant: no handler
CaughtNothing(exc) == FALSE

\* variant: a bare except
CaughtAnything(exc) == InTry(exc.site)

Caught(exc) == InTry(exc.site) /\ exc.kind = "RuntimeError"

\* variant: the budget is taken from max_new_token, not MAX_NEW_TOKEN
NewTokenBudgetCarried(MAX, current, n) ==
    IF n + current > ContextLimit THEN ContextLimit - n ELSE current

\* lines 160-164
NewTokenBudget(MAX, current, n) ==
    IF n + MAX > ContextLimit THEN ContextLimit - n ELSE MAX

\* the decoded and cleaned text of lines 184-226 for one prompt
GeneratedText(qid, i, j) == ToString(<<qid, i, j>>)

\* variant: failed turns are left out of the choice
ChoiceEntryWithoutErrors(i, turns) ==
    [index |-> i, turns |-> SelectSeq(turns, LAMBDA out : out # "ERROR")]

\* line 238
ChoiceEntry(i, turns) == [index |-> i, turns |-> turns]

\* lines 243-249; shortuuid.uuid() is unique per call, time.time() is the
\* number of lines written so far
AnswerRecord(s, sh) ==
    [question_id |-> Question(sh),
     answer_id   |-> <<s, sh.q>>,
     model_id    |-> args.model_id,
     choices     |-> sh.choices,
     tstamp      |-> Len(appended) + 1]

Running ==
    {s \in DOMAIN ans_handles :
        ans_handles[s].status \notin {"pending", "done", "failed"}}

\* ray starts a submitted task once num_gpus_per_model GPUs are free
StartTask(s) ==
    /\ use_ray
    /\ pc # "crashed"      \* the workers end with the driver
    /\ ans_handles[s].status = "pending"
    /\ Cardinality(Running) < Replicas
    /\ ans_handles' = [ans_handles EXCEPT ![s].status = "load_model"]
    /\ UNCHANGED <<args, questions, pc, use_ray, chunk_size, range_i, file,
                   appended, raised, stopVars>>

\* lines 116-129; load_model fails with a RuntimeError (no GPU memory left)
LoadModel(s) ==
    LET sh == ans_handles[s] IN
    /\ pc # "crashed"
    /\ sh.status = "load_model"
    /\ \/ /\ ans_handles' = [ans_handles EXCEPT ![s] =
                 IF sh.questions = <<>>
                 THEN [sh EXCEPT !.MAX_NEW_TOKEN = sh.max_new_token,
                                 !.status = "done"]
                 ELSE [sh EXCEPT !.MAX_NEW_TOKEN = sh.max_new_token,
                                 !.status = "question", !.q = 1]]
          /\ pc' = pc
          /\ raised' = raised
       \/ /\ raised < MaxRaised
          /\ raised' = raised + 1
          /\ ans_handles' =
                 [ans_handles EXCEPT ![s] = Raise(sh, "load_model", "RuntimeError")]
          /\ pc' = DriverAfterRaise
    /\ UNCHANGED <<args, questions, use_ray, chunk_size, range_i, file,
                   appended, stopVars>>

\* lines 130-139: the category lookup, choices = [], the first choice
BeginQuestion(s) ==
    LET sh == ans_handles[s] IN
    /\ pc # "crashed"
    /\ sh.status = "question"
    /\ \/ /\ ans_handles' = [ans_handles EXCEPT ![s] =
                 IF args.num_choices = 0
                 THEN [sh EXCEPT !.choices = <<>>, !.e = NoExc,
                                 !.status = "dump"]
                 ELSE [sh EXCEPT !.choices = <<>>, !.e = NoExc, !.i = 0,
                                 !.turns = <<>>, !.j = 0, !.status = "turn"]]
          /\ pc' = pc
          /\ raised' = raised
       \/ /\ raised < MaxRaised
          /\ raised' = raised + 1
          /\ ans_handles' =
                 [ans_handles EXCEPT ![s] = Raise(sh, "question", "OtherError")]
          /\ pc' = DriverAfterRaise
    /\ UNCHANGED <<args, questions, use_ray, chunk_size, range_i, file,
                   appended, stopVars>>

\* lines 236-238 and the loop headers 136-140: the output joins turns, a
\* finished choice joins choices, the next choice starts with turns = []
AfterTurn(sh, output) ==
    LET turns == Append(sh.turns, output) IN
    IF sh.j + 1 < NumTurns(Question(sh))
    THEN [sh EXCEPT !.turns = turns, !.j = sh.j + 1]
    ELSE LET choices == Append(sh.choices, ChoiceEntry(sh.i, turns)) IN
         IF sh.i + 1 < args.num_choices
         THEN [sh EXCEPT !.choices = choices, !.i = sh.i + 1,
                         !.turns = <<>>, !.j = 0]
         ELSE [sh EXCEPT !.choices = choices, !.turns = turns,
                         !.status = "dump"]

\* lines 141-236: one turn of one choice.  exc is what the turn raises:
\* nothing, or an exception while the prompt is built and tokenized (a
\* malformed question), or one of either kind in model.generate or while
\* its output is post-processed.
Turn(s) ==
    LET sh == ans_handles[s] IN
    /\ pc # "crashed"
    /\ sh.status = "turn"
    /\ \E exc \in {NoExc, [site |-> "prompt", kind |-> "OtherError"]}
                    \cup [site : {"generate", "postprocess"}, kind : Kinds] :
          LET n == PromptTokens(Question(sh), sh.j)
              budget == NewTokenBudget(sh.MAX_NEW_TOKEN, sh.max_new_token, n)
              tok == [sh EXCEPT !.num_input_tokens = n,
                                !.max_new_token = budget,
                                !.e = exc]
          IN
          /\ raised' = IF exc = NoExc THEN raised ELSE raised + 1
          /\ raised' <= MaxRaised
          /\ IF exc.site = "prompt"
             THEN /\ ans_handles' = [ans_handles EXCEPT ![s] =
                          Raise(sh, exc.site, exc.kind)]
                  /\ pc' = DriverAfterRaise
             ELSE IF exc = NoExc
             THEN /\ ans_handles' = [ans_handles EXCEPT ![s] =
                          AfterTurn(tok, GeneratedText(Question(sh), sh.i, sh.j))]
                  /\ pc' = pc
             ELSE IF Caught(exc)
             THEN /\ ans_handles' = [ans_handles EXCEPT ![s] =
                          AfterTurn(tok, "ERROR")]
                  /\ pc' = pc
             ELSE /\ ans_handles' = [ans_handles EXCEPT ![s] =
                          Raise(tok, exc.site, exc.kind)]
                  /\ pc' = DriverAfterRaise
    /\ UNCHANGED <<args, questions, use_ray, chunk_size, range_i, file,
                   appended, stopVars>>

\* lines 240-250 and the loop header 129.  The record is one line written
\* by one write to a file opened for appending: lines of different shards
\* do not mix.
Dump(s) ==
    LET sh == ans_handles[s] IN
    /\ pc # "crashed"
    /\ sh.status = "dump"
    /\ \/ /\ file' = Append(file, AnswerRecord(s, sh))
          /\ appended' = Append(appended, AnswerRecord(s, sh))
          /\ ans_handles' = [ans_handles EXCEPT ![s] =
                 IF sh.q < Len(sh.questions)
                 THEN [sh EXCEPT !.status = "question", !.q = sh.q + 1]
                 ELSE [sh EXCEPT !.status = "done"]]
          /\ pc' = pc
          /\ raised' = raised
       \/ /\ raised < MaxRaised
          /\ raised' = raised + 1
          /\ ans_handles' =
                 [ans_handles EXCEPT ![s] = Raise(sh, "dump", "OtherError")]
          /\ pc' = DriverAfterRaise
          /\ UNCHANGED <<file, appended>>
    /\ UNCHANGED <<args, questions, use_ray, chunk_size, range_i, stopVars>>

----------------------------------------------------------------------------
(* reorg_answer_file *)

RECURSIVE DictKeys(_)
\* the keys of the dict `answers` in insertion order (lines 255-259)
DictKeys(lines) ==
    IF lines = <<>> THEN <<>>
    ELSE LET front == DictKeys(SubSeq(lines, 1, Len(lines) - 1))
             qid == Last(lines).question_id
         IN IF \E k \in DOMAIN front : front[k] = qid
            THEN front ELSE Append(front, qid)

\* variant: the first line of a question id is kept
DictValueFirst(lines, qid) ==
    lines[CHOOSE k \in DOMAIN lines :
             /\ lines[k].question_id = qid
             /\ \A m \in DOMAIN lines : lines[m].question_id = qid => k <= m]

\* answers[qid]: the later assignment overwrites the earlier (line 259)
DictValue(lines, qid) ==
    lines[CHOOSE k \in DOMAIN lines :
             /\ lines[k].question_id = qid
             /\ \A m \in DOMAIN lines : lines[m].question_id = qid => m <= k]

\* variant: the keys are written in insertion order
PyUnsorted(seq) == seq

RECURSIVE PySorted(_)
\* sorted(list) (line 261)
PySorted(seq) ==
    IF seq = <<>> THEN <<>>
    ELSE LET k == CHOOSE a \in DOMAIN seq : \A b \in DOMAIN seq : seq[a] <= seq[b]
         IN <<seq[k]>> \o
            PySorted(SubSeq(seq, 1, k - 1) \o SubSeq(seq, k + 1, Len(seq)))

\* lines 255-264: the new content of the file
ReorgAnswerFile(lines) ==
    LET qids == PySorted(DictKeys(lines))
    IN [k \in DOMAIN qids |-> DictValue(lines, qids[k])]

----------------------------------------------------------------------------
(* __main__ and run_eval: the driver *)

AllDone == \A s \in DOMAIN ans_handles : ans_handles[s].status = "done"

SomeFailed == \E s \in DOMAIN ans_handles : ans_handles[s].status = "failed"

\* variant: a slice one question too long
ChunkOverlapping(k) == PySlice(questions, k, k + chunk_size + 1)

\* questions[i : i + chunk_size] (line 88)
Chunk(k) == PySlice(questions, k, k + chunk_size)

\* variant: the handles are not waited for
RayGetNoWait == TRUE

\* ray.get(ans_handles) returns once every task has returned (line 100)
RayGetReady == AllDone

\* line 66: load_questions returns the slice [begin, end) of the question
\* file, or fails (no such file, a malformed line)
LoadQuestions ==
    /\ pc = "load_questions"
    /\ \/ \E begin \in 0..MaxQuestions, end \in 0..MaxQuestions :
             /\ questions' = PySlice(QuestionFile, begin, end)
             /\ pc' = "check_gpus"
       \/ /\ pc' = "crashed"
          /\ UNCHANGED questions
    /\ UNCHANGED <<args, use_ray, chunk_size, range_i, ans_handles, file,
                   appended, raised, stopVars>>

\* lines 71-83: the assertion, use_ray, chunk_size, ans_handles = [] and the
\* range of the dispatch loop, which raises ValueError for a step of zero
CheckGpus ==
    /\ pc = "check_gpus"
    /\ IF args.num_gpus_total % args.num_gpus_per_model # 0
       THEN /\ pc' = "crashed"
            /\ UNCHANGED <<use_ray, chunk_size>>
       ELSE /\ use_ray' = (Replicas > 1)
            /\ chunk_size' = Len(questions) \div Replicas
            /\ pc' = IF Len(questions) \div Replicas = 0
                     THEN "crashed" ELSE "dispatch"
    /\ UNCHANGED <<args, questions, range_i, ans_handles, file, appended,
                   raised, stopVars>>

\* lines 83-97: one iteration.  With ray the call only submits the task;
\* without, the call runs get_model_answers before the loop goes on.
Dispatch ==
    /\ pc = "dispatch"
    /\ range_i \in PyRange(Len(questions), chunk_size)
    /\ use_ray \/ AllDone
    /\ ans_handles' = Append(ans_handles,
           NewShard(Chunk(range_i), IF use_ray THEN "pending" ELSE "load_model"))
    /\ range_i' = range_i + chunk_size
    /\ UNCHANGED <<args, questions, pc, use_ray, chunk_size, file, appended,
                   raised, stopVars>>

\* the loop of line 83 is exhausted; lines 99-100 and the return to __main__
EndDispatch ==
    /\ pc = "dispatch"
    /\ range_i \notin PyRange(Len(questions), chunk_size)
    /\ use_ray \/ AllDone
    /\ pc' = IF use_ray THEN "ray_get" ELSE "reorg"
    /\ UNCHANGED <<args, questions, use_ray, chunk_size, range_i, ans_handles,
                   file, appended, raised, stopVars>>

\* line 100: ray.get returns the results
RayGetReturn ==
    /\ pc = "ray_get"
    /\ RayGetReady
    /\ pc' = "reorg"
    /\ UNCHANGED <<args, questions, use_ray, chunk_size, range_i, ans_handles,
                   file, appended, raised, stopVars>>

\* line 100: ray.get raises the exception of a failed task
RayGetRaise ==
    /\ pc = "ray_get"
    /\ SomeFailed
    /\ pc' = "crashed"
    /\ UNCHANGED <<args, questions, use_ray, chunk_size, range_i, ans_handles,
                   file, appended, raised, stopVars>>

\* line 364
Reorg ==
    /\ pc = "reorg"
    /\ file' = ReorgAnswerFile(file)
    /\ pc' = "done"
    /\ UNCHANGED <<args, questions, use_ray, chunk_size, range_i, ans_handles,
                   appended, raised, stopVars>>

----------------------------------------------------------------------------
(* StopAfterEosTextGenerated *)

\* line 46
StopTokenIds == <<15501, 281, 926>>

\* the token ids of the model: the end-of-sequence token and the three of
\* the stop sequence
EosTokenIds == {2}

TokenIds == EosTokenIds \cup {StopTokenIds[k] : k \in DOMAIN StopTokenIds}

BatchSizes == {1, 2}

\* the scores the model computes for row r: finite, different in every row
ModelScores(r) == [t \in TokenIds |-> r]

\* lines 42-43
ForcedEos(eos_token_id) ==
    [t \in TokenIds |-> IF t = eos_token_id THEN 0 ELSE NegInf]

\* input_ids[:, -len(stop_token_ids):] for one row (line 47)
LastColumns(row) == SubSeq(row, Max(Len(row) - Len(StopTokenIds), 0) + 1, Len(row))

\* torch.eq broadcasts a tail of one column against the three stop tokens
\* and rejects any other tail that has not three columns (line 47)
EqBroadcasts(row) == Len(LastColumns(row)) \in {1, Len(StopTokenIds)}

\* torch.eq(...).all(dim=1) for one row (line 47)
EqAll(row) ==
    \A k \in DOMAIN StopTokenIds :
        (IF Len(LastColumns(row)) = 1 THEN LastColumns(row)[1] ELSE LastColumns(row)[k])
            = StopTokenIds[k]

\* variant: no test of the length against base_len
PastBaseAlways(proc, ids) == TRUE

\* line 41
PastBase(proc, ids) == Len(ids[1]) > proc.base_len

\* lines 40-49: what the call returns, or the RuntimeError it raises
StopAfterEosCall(proc, ids, sc) ==
    IF PastBase(proc, ids)
    THEN IF EqBroadcasts(ids[1])
         THEN [status |-> "ok",
               scores |-> [r \in DOMAIN sc |->
                              IF EqAll(ids[r]) THEN ForcedEos(proc.eos_token_id)
                                               ELSE sc[r]]]
         ELSE [status |-> "RuntimeError", scores |-> <<>>]
    ELSE [status |-> "ok", scores |-> sc]

NotCalled == [status |-> "none", scores |-> <<>>]

\* one step of generate(): the processor is called on the rows so far
ProcessorCall ==
    /\ returned = NotCalled
    /\ returned' = StopAfterEosCall(processor, input_ids, scores)
    /\ UNCHANGED <<runVars, processor, input_ids, scores>>

\* the state of the script while only the processor is looked at
RunIdle ==
    /\ args = [model_id |-> "model", max_new_token |-> 1024, num_choices |-> 1,
               num_gpus_per_model |-> 1, num_gpus_total |-> 1]
    /\ questions = <<>>
    /\ pc = "generate"
    /\ use_ray = FALSE
    /\ chunk_size = 0
    /\ range_i = 0
    /\ ans_handles = <<>>
    /\ file = <<>>
    /\ appended = <<>>
    /\ raised = 0

StopInit ==
    /\ RunIdle
    /\ processor \in [base_len : 0..MaxBaseLen, eos_token_id : EosTokenIds]
    /\ \E b \in BatchSizes, len \in 1..MaxLen :
          /\ input_ids \in [1..b -> [1..len -> TokenIds]]
          /\ scores = [r \in 1..b |-> ModelScores(r)]
    /\ returned = NotCalled

StopNext == ProcessorCall

StopSpec == StopInit /\ [][StopNext]_vars

----------------------------------------------------------------------------
(* The run of the script *)

StopIdle ==
    /\ processor = [base_len |-> 0, eos_token_id |-> 0]
    /\ input_ids = <<>>
    /\ scores = <<>>
    /\ returned = NotCalled

Init ==
    /\ args \in [model_id           : {"model"},
                 max_new_token      : MaxNewTokenArgs,
                 num_choices        : NumChoicesArgs,
                 num_gpus_per_model : GpusPerModelArgs,
                 num_gpus_total     : GpusTotalArgs]
    /\ questions = <<>>
    /\ pc = "load_questions"
    /\ use_ray = FALSE
    /\ chunk_size = 0
    /\ range_i = 0
    /\ ans_handles = <<>>
    /\ file \in ExistingFiles
    /\ appended = file
    /\ raised = 0
    /\ StopIdle

Next ==
    \/ LoadQuestions
    \/ CheckGpus
    \/ Dispatch
    \/ EndDispatch
    \/ RayGetReturn
    \/ RayGetRaise
    \/ Reorg
    \/ \E s \in DOMAIN ans_handles : StartTask(s)
    \/ \E s \in DOMAIN ans_handles : LoadModel(s)
    \/ \E s \in DOMAIN ans_handles : BeginQuestion(s)
    \/ \E s \in DOMAIN ans_handles : Turn(s)
    \/ \E s \in DOMAIN ans_handles : Dump(s)

Spec == Init /\ [][Next]_vars

----------------------------------------------------------------------------
(* Properties *)

IsNew(line) == line.answer_id[1] >= 1

LastOutput(sh) ==
    IF sh.turns # <<>> THEN Last(sh.turns) ELSE Last(Last(sh.choices).turns)

HasRecord(lines, s, k) ==
    \E a \in DOMAIN lines : lines[a].answer_id = <<s, k>>

RECURSIVE Flatten(_)
Flatten(handles) ==
    IF handles = <<>> THEN <<>>
    ELSE Flatten(SubSeq(handles, 1, Len(handles) - 1)) \o Last(handles).questions

EndsWithStop(row) ==
    /\ Len(row) >= 3
    /\ row[Len(row) - 2] = 15501
    /\ row[Len(row) - 1] = 281
    /\ row[Len(row)] = 926

OnlyEos(row_scores) ==
    \A t \in DOMAIN row_scores :
        row_scores[t] = IF t = processor.eos_token_id THEN 0 ELSE NegInf

(* C1: after a complete run, for every number of loaded questions and of
   model replicas, the answer file holds exactly one record per question
   id, every loaded question has a record, and the records are in ascending
   order of question id. *)
C1_CompleteRunSortedOnePerQuestion ==
    pc = "done" =>
        /\ \A a, b \in DOMAIN file :
              a < b => file[a].question_id < file[b].question_id
        /\ \A k \in DOMAIN questions :
              \E a \in DOMAIN file : file[a].question_id = questions[k]

C1_Witness ==
    /\ pc = "done"
    /\ use_ray
    /\ Len(questions) = MaxQuestions
    /\ Len(file) < Len(appended)
    /\ \E a \in DOMAIN appended : a > 1 /\
          appended[a].question_id < appended[a - 1].question_id

(* C2: a RuntimeError of the generation call of a turn becomes the output
   "ERROR" of that turn and the shard goes on: it does not fail, every
   record it writes holds every turn of every choice, and a shard that
   finished has written the record of every question of its chunk. *)
C2_GenerationErrorBecomesErrorOutput ==
    \A s \in DOMAIN ans_handles :
        LET sh == ans_handles[s] IN
        /\ sh.e = [site |-> "generate", kind |-> "RuntimeError"] =>
              /\ sh.status # "failed"
              /\ LastOutput(sh) = "ERROR"
        /\ sh.status = "done" =>
              \A k \in DOMAIN sh.questions :
                 \E a \in DOMAIN appended :
                    /\ appended[a].answer_id = <<s, k>>
                    /\ appended[a].question_id = sh.questions[k]
                    /\ \A c \in DOMAIN appended[a].choices :
                          Len(appended[a].choices[c].turns)
                              = NumTurns(sh.questions[k])

C2_Witness ==
    \E s \in DOMAIN ans_handles :
        LET sh == ans_handles[s] IN
        /\ sh.status = "done"
        /\ sh.e = [site |-> "generate", kind |-> "RuntimeError"]
        /\ \E a \in DOMAIN file :
              /\ file[a].answer_id = <<s, sh.q>>
              /\ Len(file[a].choices) = 2
              /\ file[a].choices[2].turns
                    = <<GeneratedText(file[a].question_id, 1, 0), "ERROR">>

(* C3: the number of get_model_answers dispatches of run_eval equals
   num_gpus_total // num_gpus_per_model, for every question count. *)
C3_OneDispatchPerReplica ==
    pc \in {"ray_get", "reorg", "done"} => Len(ans_handles) = Replicas

(* C4: every record get_model_answers appends holds the question id, an
   answer id, the model id, a timestamp and num_choices choices with the
   indexes 0..num_choices-1 in order, each with one completion per turn of
   the question in turn order, failed turns included. *)
C4_RecordShape ==
    \A a \in DOMAIN file :
        IsNew(file[a]) =>
            LET r == file[a] IN
            /\ DOMAIN r = {"question_id", "answer_id", "model_id", "choices",
                           "tstamp"}
            /\ \E k \in DOMAIN questions : questions[k] = r.question_id
            /\ r.model_id = args.model_id
            /\ r.tstamp >= 1
            /\ Len(r.choices) = args.num_choices
            /\ \A c \in DOMAIN r.choices :
                  /\ r.choices[c].index = c - 1
                  /\ Len(r.choices[c].turns) = NumTurns(r.question_id)
                  /\ \A t \in DOMAIN r.choices[c].turns :
                        r.choices[c].turns[t] \in
                            {"ERROR", GeneratedText(r.question_id, c - 1, t - 1)}

C4_Witness ==
    \E a \in DOMAIN file :
        /\ IsNew(file[a])
        /\ Len(file[a].choices) = 2
        /\ Len(file[a].choices[1].turns) = 2
        /\ file[a].choices[1].turns[1] = "ERROR"
        /\ file[a].choices[2].turns[2] # "ERROR"

(* C5: the answer file is only appended to until the rewrite, and the
   rewrite starts only when every chunk has been dispatched and every shard
   has appended its last record and returned, with or without ray. *)
C5_RewriteAfterLastAppend ==
    /\ pc # "done" => file = appended
    /\ pc \in {"reorg", "done"} =>
          /\ range_i >= Len(questions)
          /\ \A s \in DOMAIN ans_handles : ans_handles[s].status = "done"

C5_Witness ==
    /\ pc = "done"
    /\ use_ray
    /\ Len(ans_handles) >= 2
    /\ \A s \in DOMAIN ans_handles : HasRecord(appended, s, 1)

(* C6, as claimed: a failure anywhere but in the generation call is never
   turned into an "ERROR" output: the shard fails, it writes no record for
   the question in progress, and the rewrite does not run. *)
C6_OnlyGenerationFailuresBecomeError ==
    \A s \in DOMAIN ans_handles :
        LET sh == ans_handles[s] IN
        (sh.e # NoExc /\ sh.e.site # "generate") =>
            /\ sh.status = "failed"
            /\ ~HasRecord(appended, s, sh.q)
            /\ pc \notin {"reorg", "done"}

(* C6, amended: a failure outside the try block of lines 171-229, or inside
   it but not a RuntimeError, is never turned into an "ERROR" output: the
   shard fails, it writes no record for the question in progress, and the
   rewrite does not run.  (A RuntimeError raised while the output is
   post-processed is inside the try block and becomes "ERROR".) *)
C6_UncaughtFailuresEndTheRun ==
    /\ \A s \in DOMAIN ans_handles :
          LET sh == ans_handles[s] IN
          (sh.e # NoExc /\ ~(/\ sh.e.site \in {"generate", "postprocess"}
                            /\ sh.e.kind = "RuntimeError")) =>
              /\ sh.status = "failed"
              /\ ~HasRecord(appended, s, sh.q)
              /\ pc \notin {"reorg", "done"}
    /\ pc = "crashed" => file = appended

C6_Witness ==
    /\ pc = "crashed"
    /\ \E s \in DOMAIN ans_handles :
          /\ ans_handles[s].status = "failed"
          /\ ans_handles[s].e = [site |-> "postprocess", kind |-> "OtherError"]
          /\ ans_handles[s].q = 2
          /\ HasRecord(appended, s, 1)

(* C7, as claimed: in every call, a row whose last three tokens are
   15501, 281, 926 gets scores that admit only the EOS token, and every
   other row keeps its scores. *)
C7_ForcedEosWheneverSuffix ==
    returned.status = "ok" =>
        \A r \in DOMAIN input_ids :
            IF EndsWithStop(input_ids[r])
            THEN OnlyEos(returned.scores[r])
            ELSE returned.scores[r] = scores[r]

(* C7, amended: in every call whose input_ids has more columns than
   base_len, a row whose last three tokens are 15501, 281, 926 gets scores
   that admit only the EOS token and every other row keeps its scores; in a
   call whose input_ids has at most base_len columns every row keeps its
   scores.  The call raises instead of returning exactly when input_ids has
   two columns and base_len is below two. *)
C7_ForcedEosPastBaseLen ==
    /\ returned.status = "ok" =>
          \A r \in DOMAIN input_ids :
              IF /\ Len(input_ids[r]) > processor.base_len
                 /\ EndsWithStop(input_ids[r])
              THEN OnlyEos(returned.scores[r])
              ELSE returned.scores[r] = scores[r]
    /\ returned.status = "RuntimeError" <=>
          /\ returned # NotCalled
          /\ Len(input_ids[1]) = 2
          /\ processor.base_len < 2

C7_Witness ==
    /\ returned.status = "ok"
    /\ Len(input_ids) = 2
    /\ Len(input_ids[1]) > processor.base_len
    /\ EndsWithStop(input_ids[1])
    /\ ~EndsWithStop(input_ids[2])
    /\ OnlyEos(returned.scores[1])
    /\ returned.scores[2] = scores[2]

(* C8: the chunks run_eval dispatches are contiguous slices that partition
   the question list: in dispatch order they concatenate to the part of the
   list the loop has passed, and to the whole list once the loop is over. *)
C8_ChunksPartitionQuestions ==
    /\ pc = "dispatch" =>
          Flatten(ans_handles) = PySlice(questions, 0, range_i)
    /\ pc \in {"ray_get", "reorg", "done"} => Flatten(ans_handles) = questions
    /\ \A s \in DOMAIN ans_handles : ans_handles[s].questions # <<>>

C8_Witness ==
    /\ pc = "ray_get"
    /\ Len(ans_handles) = 3
    /\ Len(questions) = 3
    /\ Flatten(ans_handles) = questions

(* C9: reorg_answer_file keeps, for every question id of the file, the
   record appended last for that id, unchanged, and nothing else: no id is
   lost, no record is added. *)
C9_ReorgKeepsLastRecordPerId ==
    pc = "done" =>
        /\ \A k \in DOMAIN file :
              \E a \in DOMAIN appended :
                 /\ appended[a] = file[k]
                 /\ \A b \in DOMAIN appended :
                       b > a => appended[b].question_id # file[k].question_id
        /\ \A a \in DOMAIN appended :
              \E k \in DOMAIN file :
                 file[k].question_id = appended[a].question_id
        /\ \A k, m \in DOMAIN file :
              file[k].question_id = file[m].question_id => k = m

C9_Witness ==
    /\ pc = "done"
    /\ Len(file) + 2 = Len(appended)
    /\ \E k \in DOMAIN file :
          /\ IsNew(file[k])
          /\ \E a \in DOMAIN appended :
                /\ ~IsNew(appended[a])
                /\ appended[a].question_id = file[k].question_id

(* C10: the new-token budget of every turn is the minimum of the configured
   --max-new-token and 2048 minus the input tokens of that turn, so input
   tokens plus budget never exceed 2048, whatever the earlier turns,
   choices and questions reduced it to. *)
C10_BudgetIsMinOfConfiguredAndRoom ==
    \A s \in DOMAIN ans_handles :
        LET sh == ans_handles[s] IN
        sh.num_input_tokens > 0 =>
            /\ sh.max_new_token =
                  Min(args.max_new_token, 2048 - sh.num_input_tokens)
            /\ sh.num_input_tokens + sh.max_new_token <= 2048

C10_Witness ==
    \E s \in DOMAIN ans_handles :
        LET sh == ans_handles[s] IN
        /\ sh.status = "turn"
        /\ sh.i = 1
        /\ sh.j = 1
        /\ PromptTokens(Question(sh), 1) + args.max_new_token > 2048
        /\ sh.num_input_tokens = PromptTokens(Question(sh), 0)
        /\ sh.max_new_token = args.max_new_token

====
